---- MODULE Spec2Model ----
(***************************************************************************)
(* Model of src/src/components/CodeRunner.tsx: the in-browser execution    *)
(* and grading pipeline (Interpreter Host, Input Virtualizer, Output       *)
(* Capture, Execution Supervisor, Grading Engine, Test Orchestrator).      *)
(*                                                                         *)
(* Texts are sequences of one-character strings.  The fixed messages of    *)
(* the component are one-element texts whose single element is the whole   *)
(* message.                                                                *)
(***************************************************************************)
EXTENDS Integers, Sequences, FiniteSets, TLC

\* ------------------------------------------------------------------ bounds

\* Number of Run/Submit clicks followed in one behaviour.
MaxInv == 2

\* Number of runCode calls the clicks of one behaviour can make in all.
MaxExecs == 3

\* Number of failing interpreter or store calls (other than the user script
\* itself) followed in one behaviour.
MaxFaults == 1

\* Number of rejected clicks (clicks while the interpreter is not ready)
\* followed in one behaviour.
MaxWarn == 1

\* ------------------------------------------------------------------ texts

EmptyText == <<>>

IsSpace(c) == c \in {" ", "\n", "\r", "\t"}

RECURSIVE TrimStart(_)
TrimStart(s) ==
  IF s = <<>> THEN <<>>
  ELSE IF IsSpace(Head(s)) THEN TrimStart(Tail(s)) ELSE s

RECURSIVE TrimEnd(_)
TrimEnd(s) ==
  IF s = <<>> THEN <<>>
  ELSE IF IsSpace(s[Len(s)]) THEN TrimEnd(SubSeq(s, 1, Len(s) - 1)) ELSE s

\* String.prototype.trim
Trim(s) == TrimEnd(TrimStart(s))

UpperChars == <<"A", "B", "C", "D", "E", "F", "G", "H", "I", "J", "K", "L", "M",
                "N", "O", "P", "Q", "R", "S", "T", "U", "V", "W", "X", "Y", "Z">>
LowerChars == <<"a", "b", "c", "d", "e", "f", "g", "h", "i", "j", "k", "l", "m",
                "n", "o", "p", "q", "r", "s", "t", "u", "v", "w", "x", "y", "z">>

LowerChar(c) ==
  IF \E i \in 1..Len(UpperChars) : UpperChars[i] = c
  THEN LowerChars[CHOOSE i \in 1..Len(UpperChars) : UpperChars[i] = c]
  ELSE c

\* String.prototype.toLowerCase
ToLowerCase(s) == [i \in 1..Len(s) |-> LowerChar(s[i])]

\* input.split(/\s+/).filter(Boolean): the maximal runs of non-space characters
RECURSIVE SplitWsFrom(_, _)
SplitWsFrom(s, cur) ==
  IF s = <<>> THEN (IF cur = <<>> THEN <<>> ELSE <<cur>>)
  ELSE IF IsSpace(Head(s))
       THEN (IF cur = <<>> THEN <<>> ELSE <<cur>>) \o SplitWsFrom(Tail(s), <<>>)
       ELSE SplitWsFrom(Tail(s), Append(cur, Head(s)))

SplitWs(s) == SplitWsFrom(s, <<>>)

\* input.split(/\r?\n/): the pieces between line breaks, a "\r" right before
\* a "\n" belonging to the break
RECURSIVE SplitNlFrom(_, _)
SplitNlFrom(s, cur) ==
  IF s = <<>> THEN <<cur>>
  ELSE IF Head(s) = "\n"
       THEN <<(IF cur # <<>> /\ cur[Len(cur)] = "\r"
               THEN SubSeq(cur, 1, Len(cur) - 1) ELSE cur)>>
            \o SplitNlFrom(Tail(s), <<>>)
       ELSE SplitNlFrom(Tail(s), Append(cur, Head(s)))

\* .filter(Boolean) on an array of strings drops the empty ones
FilterNonEmpty(ss) == SelectSeq(ss, LAMBDA x : x # <<>>)

SplitLines(s) == FilterNonEmpty(SplitNlFrom(s, <<>>))

\* ------------------------------------------------------------------ grading

Digits == <<"0", "1", "2", "3", "4", "5", "6", "7", "8", "9">>

IsDigit(c) == \E i \in 1..10 : Digits[i] = c

DigitVal(c) == (CHOOSE i \in 1..10 : Digits[i] = c) - 1

AllDigits(s) == \A i \in 1..Len(s) : IsDigit(s[i])

RECURSIVE DigitsVal(_)
DigitsVal(s) ==
  IF s = <<>> THEN 0 ELSE 10 * DigitsVal(SubSeq(s, 1, Len(s) - 1)) + DigitVal(s[Len(s)])

RECURSIVE Pow10(_)
Pow10(n) == IF n <= 0 THEN 1 ELSE 10 * Pow10(n - 1)

\* position of the first c in s, 0 when there is none
FirstIndex(s, c) ==
  IF \E i \in 1..Len(s) : s[i] = c
  THEN CHOOSE i \in 1..Len(s) : s[i] = c /\ \A j \in 1..(i - 1) : s[j] # c
  ELSE 0

NaN == [ok |-> FALSE, m |-> 0, sc |-> 0]

\* the unsigned decimal literal: digits, digits. , digits.digits , .digits ,
\* each with an optional exponent part e[+-]digits; its value is m / 10^sc
UnsignedDecimal(s) ==
  LET e     == FirstIndex(s, "e")
      mant  == IF e = 0 THEN s ELSE SubSeq(s, 1, e - 1)
      ex    == IF e = 0 THEN <<>> ELSE SubSeq(s, e + 1, Len(s))
      exNeg == ex # <<>> /\ Head(ex) = "-"
      exDig == IF ex # <<>> /\ Head(ex) \in {"+", "-"} THEN Tail(ex) ELSE ex
      d     == FirstIndex(mant, ".")
      ip    == IF d = 0 THEN mant ELSE SubSeq(mant, 1, d - 1)
      fp    == IF d = 0 THEN <<>> ELSE SubSeq(mant, d + 1, Len(mant))
      exVal == IF exNeg THEN 0 - DigitsVal(exDig) ELSE DigitsVal(exDig)
  IN  IF /\ AllDigits(ip) /\ AllDigits(fp) /\ (ip # <<>> \/ fp # <<>>)
         /\ (e = 0 \/ (exDig # <<>> /\ AllDigits(exDig)))
      THEN [ok |-> TRUE, m |-> DigitsVal(ip \o fp),
            sc |-> Len(fp) - (IF e = 0 THEN 0 ELSE exVal)]
      ELSE NaN

\* Number(t) of a text without surrounding white space
TrimmedToNumber(t) ==
  IF t = <<>> THEN [ok |-> TRUE, m |-> 0, sc |-> 0]
  ELSE IF Head(t) = "-"
       THEN [ok |-> UnsignedDecimal(Tail(t)).ok,
             m  |-> 0 - UnsignedDecimal(Tail(t)).m,
             sc |-> UnsignedDecimal(Tail(t)).sc]
       ELSE IF Head(t) = "+" THEN UnsignedDecimal(Tail(t))
       ELSE UnsignedDecimal(t)

\* Number(s): white space around the text is dropped, the empty text is 0, a
\* signed decimal literal is its value, anything else is NaN
ToNumber(s) == CHOOSE n \in {TrimmedToNumber(t) : t \in {Trim(s)}} : TRUE

\* tryParseFloat: null (ok = FALSE) when Number(s) is NaN
tryParseFloat(s) == ToNumber(s)

\* 1e-2 is 1 / ToleranceInv
ToleranceInv == 100

Abs(x) == IF x < 0 THEN 0 - x ELSE x

Max(a, b) == IF a >= b THEN a ELSE b

\* the distance of the decimal values a.m / 10^a.sc and b.m / 10^b.sc, times
\* ToleranceInv * 10^S, and 10^S, for S the larger scale
ScaledDistance(a, b) ==
  LET S == Max(Max(a.sc, b.sc), 0)
  IN  [d   |-> Abs(a.m * Pow10(S - a.sc) - b.m * Pow10(S - b.sc)) * ToleranceInv,
       one |-> Pow10(S)]

\* the decimal value of a is a whole number of hundredths
InHundredths(a) == a.sc <= 2 \/ (a.m * 100) % Pow10(a.sc) = 0

\* that number of hundredths, without its sign
Hundredths(a) ==
  IF a.sc <= 2 THEN Abs(a.m) * Pow10(2 - a.sc) ELSE (Abs(a.m) * 100) \div Pow10(a.sc)

\* fraction bits of the significand of an IEEE 754 double, the Number type
MantissaBits == 52

\* the binary exponent of h hundredths, h > 0: the e with 2^e <= h / 100 < 2^(e+1)
RECURSIVE Float64Exp(_)
Float64Exp(h) ==
  IF h < 100 THEN Float64Exp(2 * h) - 1
  ELSE IF h < 200 THEN 0
  ELSE Float64Exp(h \div 2) + 1

\* the double nearest to h hundredths is a multiple of 2^(-Float64Shift(h))
Float64Shift(h) == IF h = 0 THEN 0 ELSE MantissaBits - Float64Exp(h)

RECURSIVE Pow2Mod(_, _)
Pow2Mod(n, q) == IF n <= 0 THEN 1 % q ELSE (2 * Pow2Mod(n - 1, q)) % q

\* the rounding error of the double nearest to h hundredths, in units of
\* 2^(-Float64Shift(h)) / 100: h * 2^shift / 100 is rounded to the nearest
\* integer (for shift >= 2 its remainder is never one half)
Float64Err(h) ==
  LET r == ((h % 100) * Pow2Mod(Float64Shift(h), 100)) % 100
  IN  IF r < 50 THEN 0 - r ELSE 100 - r

RECURSIVE Pow2(_)
Pow2(n) == IF n <= 0 THEN 1 ELSE 2 * Pow2(n - 1)

\* Math.abs(x - y) < 1e-2 for doubles x, y nearest to hi and lo hundredths,
\* hi = lo + 1.  x - y is exact (lo = 0 or y >= x / 2), so it is 1/100 plus the
\* rounding errors of x and y, and it is compared with the double nearest to
\* one hundredth, which is 1/100 plus its own rounding error.
Float64BelowTolerance(hi, lo) ==
  LET kk  == IF lo = 0 THEN Float64Shift(hi) ELSE Float64Shift(lo)
      t   == Float64Err(hi) * Pow2(kk - Float64Shift(hi)) - Float64Err(lo)
      k0  == Float64Shift(100 \div ToleranceInv)
      up  == IF k0 - kk > 4 THEN 4 ELSE k0 - kk
  IN  t <= 0 \/ t * Pow2(up) < Float64Err(100 \div ToleranceInv)

\* Math.abs(a - b) < 1e-2 on the doubles nearest to the decimal values of a
\* and b.  Off the boundary the decimal distance is away from 1/100 by at
\* least 10^-S, far more than the rounding errors of the doubles (values
\* below 10^6 in magnitude, S <= 6), so the decimal comparison decides; at
\* decimal distance exactly 1/100 the rounding errors decide (worked out for
\* values in hundredths; other pairs at that distance count as not below).
WithinTolerance(a, b) ==
  \E sd \in {ScaledDistance(a, b)} :
    IF sd.d # sd.one THEN sd.d < sd.one
    ELSE /\ InHundredths(a) /\ InHundredths(b)
         /\ Float64BelowTolerance(Max(Hundredths(a), Hundredths(b)),
                                  IF Hundredths(a) < Hundredths(b)
                                  THEN Hundredths(a) ELSE Hundredths(b))

\* the comparison of handleRun and handleSubmit
Grade(actualOutput, expected) ==
  \E normalizedExpected \in {ToLowerCase(Trim(expected))} :
    \E normalizedActual \in {ToLowerCase(Trim(actualOutput))} :
      \E expectedFloat \in {tryParseFloat(normalizedExpected)} :
        \E actualFloat \in {tryParseFloat(normalizedActual)} :
          IF expectedFloat.ok /\ actualFloat.ok
          THEN WithinTolerance(expectedFloat, actualFloat)
          ELSE normalizedActual = normalizedExpected

\* ------------------------------------------------------------------ Input Virtualizer

NoOwner == <<0, 0>>

\* a construction that trims the text of the single value formats
MakeReader_SingleTrimmed(owner, input, inputFormat) ==
  LET base == [owner |-> owner, fmt |-> inputFormat, readBy |-> {},
               inputValue |-> <<>>, toks |-> <<>>, index |-> 0,
               lines |-> <<>>, lineIndex |-> 0]
  IN  IF inputFormat \in {"single_integer", "single_string"}
      THEN [base EXCEPT !.inputValue = Trim(input)]
      ELSE IF inputFormat = "multiline_integers"
      THEN [base EXCEPT !.lines = SplitLines(input)]
      ELSE [base EXCEPT !.toks = SplitWs(input)]

\* the closure state of an inputProcessor: inputValue (single value formats),
\* toks/index (numbers, parts, values, currentLineNumbers and their cursor),
\* lines/lineIndex (multiline_integers).  owner is the execution it was built
\* for and readBy the executions that have called it.
MakeReader(owner, input, inputFormat) ==
  LET base == [owner |-> owner, fmt |-> inputFormat, readBy |-> {},
               inputValue |-> <<>>, toks |-> <<>>, index |-> 0,
               lines |-> <<>>, lineIndex |-> 0]
  IN  IF inputFormat \in {"single_integer", "single_string"}
      THEN [base EXCEPT !.inputValue = input]
      ELSE IF inputFormat = "space_separated_integers"
      THEN [base EXCEPT !.toks = SplitWs(input)]
      ELSE IF inputFormat = "multiline_integers"
      THEN [base EXCEPT !.lines = SplitLines(input)]
      ELSE IF inputFormat = "space_separated_with_operator"
      THEN [base EXCEPT !.toks = SplitWs(input)]
      ELSE [base EXCEPT !.toks = SplitWs(input)]

\* a reader whose cursor goes back to the start when the tokens are used up
ReadInput_RewindsWhenExhausted(r) ==
  IF r.fmt \in {"single_integer", "single_string"}
  THEN [kind |-> "value", val |-> r.inputValue, r |-> [r EXCEPT !.inputValue = <<>>]]
  ELSE IF r.index < Len(r.toks)
       THEN [kind |-> "value", val |-> r.toks[r.index + 1],
             r |-> [r EXCEPT !.index = r.index + 1]]
       ELSE IF r.fmt = "multiline_integers" /\ r.lineIndex < Len(r.lines)
       THEN LET cur == SplitWs(r.lines[r.lineIndex + 1])
            IN  [kind |-> IF cur = <<>> THEN "undefined" ELSE "value",
                 val  |-> IF cur = <<>> THEN <<>> ELSE cur[1],
                 r    |-> [r EXCEPT !.lineIndex = r.lineIndex + 1,
                                    !.toks = cur, !.index = 1]]
       ELSE [kind |-> "throw", val |-> <<>>, r |-> [r EXCEPT !.index = 0]]

\* one call of inputProcessor(): kind is "value" (val returned), "undefined"
\* (currentLineNumbers[0] of a line without tokens) or "throw"
ReadInput(r) ==
  IF r.fmt \in {"single_integer", "single_string"}
  THEN [kind |-> "value", val |-> r.inputValue, r |-> [r EXCEPT !.inputValue = <<>>]]
  ELSE IF r.fmt = "multiline_integers"
  THEN IF r.index < Len(r.toks)
       THEN [kind |-> "value", val |-> r.toks[r.index + 1],
             r |-> [r EXCEPT !.index = r.index + 1]]
       ELSE IF r.lineIndex < Len(r.lines)
       THEN LET cur == SplitWs(r.lines[r.lineIndex + 1])
            IN  [kind |-> IF cur = <<>> THEN "undefined" ELSE "value",
                 val  |-> IF cur = <<>> THEN <<>> ELSE cur[1],
                 r    |-> [r EXCEPT !.lineIndex = r.lineIndex + 1,
                                    !.toks = cur, !.index = 1]]
       ELSE [kind |-> "throw", val |-> <<>>, r |-> r]
  ELSE IF r.index < Len(r.toks)
       THEN [kind |-> "value", val |-> r.toks[r.index + 1],
             r |-> [r EXCEPT !.index = r.index + 1]]
       ELSE [kind |-> "throw", val |-> <<>>, r |-> r]

\* ------------------------------------------------------------------ fixed texts

TimeLimitMsg   == <<"Time limit exceeded">>
NoMoreInputMsg == <<"No more input values available">>
NoOutputText   == <<"[no output]">>
NotFoundMsg    == <<"Question not found">>
PythonErrorMsg == <<"PythonError">>
InterpErrorMsg == <<"interpreter call failed">>
TypeErrorMsg   == <<"Cannot read properties of undefined">>
StoreErrorMsg  == <<"setDoc failed">>
NoneText       == <<"N", "o", "n", "e">>

\* ------------------------------------------------------------------ user code

\* The source text in the editor is a straight-line script over these
\* statements: "read" is x = input(), "print" is print(x), "printK" is
\* print(5), "await" suspends the script until the event loop resumes it
\* (await asyncio.sleep(...)), "raise" raises an exception.
Programs ==
  { <<"read", "print">>,
    <<"printK", "await">>,
    <<"await", "read", "print">>,
    <<"printK", "raise">>,
    <<"read", "read", "print">> }

ConstText == <<"5">>

\* One synchronous stretch of a script: the statements from position pos up
\* to and including the next "await", or to the end of the script, or to the
\* statement that raises.  input() is looked up in the interpreter globals
\* and print() writes to sys.stdout when called, so it acts on the hook and
\* the sink installed at that moment.
RECURSIVE RunSegment(_, _, _, _, _, _)
RunSegment(prog, id, pos, x, hk, snk) ==
  IF pos >= Len(prog)
  THEN [status |-> "done", pos |-> pos, x |-> x, hook |-> hk, sink |-> snk, msg |-> <<>>]
  ELSE LET op == prog[pos + 1]
       IN  IF op = "await"
           THEN [status |-> "suspended", pos |-> pos + 1, x |-> x,
                 hook |-> hk, sink |-> snk, msg |-> <<>>]
           ELSE IF op = "raise"
           THEN [status |-> "raised", pos |-> pos + 1, x |-> x,
                 hook |-> hk, sink |-> snk, msg |-> PythonErrorMsg]
           ELSE IF op = "read"
           THEN LET rd  == ReadInput(hk)
                    hk2 == [rd.r EXCEPT !.readBy = @ \cup {id}]
                IN  IF rd.kind = "throw"
                    THEN [status |-> "raised", pos |-> pos + 1, x |-> x,
                          hook |-> hk2, sink |-> snk, msg |-> NoMoreInputMsg]
                    ELSE RunSegment(prog, id, pos + 1,
                                    IF rd.kind = "undefined" THEN NoneText ELSE rd.val,
                                    hk2, snk)
           ELSE IF op = "print"
           THEN RunSegment(prog, id, pos + 1, x, hk, snk \o x \o <<"\n">>)
           ELSE RunSegment(prog, id, pos + 1, x, hk, snk \o ConstText \o <<"\n">>)

\* ------------------------------------------------------------------ problem data

QuestionId == "q1"
OtherId    == "q2"
NoUser     == "none"
NotFound   == "not_found"

TestCase(input, output, hidden) == [input |-> input, output |-> output, hidden |-> hidden]

PubA == TestCase(<<"5">>, <<"5">>, FALSE)
PubB == TestCase(<<"7">>, <<"8">>, FALSE)
HidA == TestCase(<<"5">>, <<"5">>, TRUE)
HidB == TestCase(<<"7", " ", "5">>, <<"5">>, TRUE)

\* the tests prop of the component
Suites ==
  { <<>>, <<PubA>>, <<HidA>>, <<PubA, PubB>>, <<PubA, HidB>>, <<HidB, PubA>> }

\* question.input_format of the question the lookup finds, or NotFound
Questions == {NotFound, "space_separated_integers"}

Invs == 1..MaxInv

\* ------------------------------------------------------------------ display parts

Part(l, t, k) == [l |-> l, t |-> t, k |-> k]

InputPart(ts, k)    == Part("Input", ts[k].input, k)
ExpectedPart(ts, k) == Part("Expected Output", ts[k].output, k)
YourPart(t)         == Part("Your Output", t, 0)
ErrorLine(t)        == Part("Error line", t, 0)
ErrorPart(t)        == Part("Error", t, 0)
StatusPart(passed)  == Part(IF passed THEN "You did it" ELSE "Try again", <<>>, 0)
BlankPart           == Part("", <<>>, 0)
BannerPart          == Part("All tests passed", <<>>, 0)
GenericPart         == Part("Some hidden test cases failed", <<>>, 0)

\* lines.join("\n"): the lines in order
JoinLines(lines) == lines

\* ------------------------------------------------------------------ state

VARIABLES
  initPc,     \* position of the init effect: "start", "inject", "loadPyodide", "ready", "failed"
  loading,    \* useState loading
  pyodide,    \* useState pyodide: TRUE when the interpreter instance is set
  user,       \* useUser(): NoUser or a uid
  code,       \* useState code: the script in the editor
  tests,      \* prop tests
  question,   \* the result of allQuestions.find for questionId
  output,     \* useState output: the displayed parts
  solvedMap,  \* useState solvedMap: the ids mapped to true
  store,      \* the user's document of the progress store
  effPc,      \* position of the getDoc effect: "start", "read", "done"
  snap,       \* the snapshot getDoc resolved with
  inv,        \* the handleRun / handleSubmit invocations
  hook,       \* the interpreter global "input"
  sink,       \* the text of the StringIO bound to sys.stdout
  scripts,    \* the user scripts started and not yet ended
  writers,    \* the executions that have written to the StringIO bound to sys.stdout
  warned,     \* the console.warn calls of rejected clicks
  faults,     \* the interpreter and store calls that have failed so far
  unit        \* the reader or grading call exercised on its own (NoUnit otherwise)

vars == <<initPc, loading, pyodide, user, code, tests, question, output, solvedMap,
          store, effPc, snap, inv, hook, sink, scripts, writers, warned, faults, unit>>

hostVars == <<initPc, loading, pyodide>>
propVars == <<user, code, tests, question>>
progressVars == <<solvedMap, store, effPc, snap>>
interpVars == <<hook, sink, scripts, writers>>
Fault == faults < MaxFaults /\ faults' = faults + 1

\* no reader or grading call is exercised on its own
NoUnit == [fn |-> "none"]

IdleInv ==
  [kind |-> "none", pc |-> "idle", code |-> <<>>, user |-> NoUser, k |-> 0,
   allPassed |-> TRUE, anyHiddenFailed |-> FALSE, lines |-> <<>>, err |-> <<>>,
   cause |-> "none", order |-> <<>>, results |-> <<>>, report |-> <<>>, upserts |-> 0]

Init ==
  /\ initPc = "start"
  /\ loading = TRUE
  /\ pyodide = FALSE
  /\ user \in {NoUser, "u1"}
  /\ code \in Programs
  /\ tests \in Suites
  /\ question \in Questions
  /\ output = <<>>
  /\ solvedMap = {}
  /\ store = [solved |-> {OtherId}, writes |-> 0]
  /\ effPc = "start"
  /\ snap = {}
  /\ inv = [i \in Invs |-> IdleInv]
  /\ hook = MakeReader(NoOwner, <<>>, "builtin")
  /\ sink = <<>>
  /\ scripts = {}
  /\ writers = {}
  /\ warned = 0
  /\ faults = 0
  /\ unit = NoUnit

\* ------------------------------------------------------------------ Interpreter Host

\* init(): loadPyodide is not on window, the script element is injected
InitInject ==
  /\ initPc = "start"
  /\ initPc' = "inject"
  /\ UNCHANGED <<unit, warned, faults, loading, pyodide, propVars, output, progressVars, inv, interpVars>>

\* script.onload resolves the promise, or loadPyodide was on window already
InitLoadPyodide ==
  /\ initPc \in {"start", "inject"}
  /\ initPc' = "loadPyodide"
  /\ UNCHANGED <<unit, warned, faults, loading, pyodide, propVars, output, progressVars, inv, interpVars>>

\* loadPyodide resolves: setPyodide(py); setLoading(false)
InitReady ==
  /\ initPc = "loadPyodide"
  /\ initPc' = "ready"
  /\ pyodide' = TRUE
  /\ loading' = FALSE
  /\ UNCHANGED <<unit, warned, faults, propVars, output, progressVars, inv, interpVars>>

\* an init() that clears the loading flag when the bootstrap fails
InitFail_ClearsLoading ==
  /\ initPc \in {"inject", "loadPyodide"}
  /\ initPc' = "failed"
  /\ loading' = FALSE
  /\ UNCHANGED <<unit, warned, faults, pyodide, propVars, output, progressVars, inv, interpVars>>

\* the script never loads or loadPyodide rejects: init() never gets further
InitFail ==
  /\ initPc \in {"inject", "loadPyodide"}
  /\ initPc' = "failed"
  /\ UNCHANGED <<unit, warned, faults, loading, pyodide, propVars, output, progressVars, inv, interpVars>>

\* ------------------------------------------------------------------ progress effect

\* getDoc(userRef) reads the document
GetDocRead ==
  /\ effPc = "start"
  /\ user # NoUser
  /\ effPc' = "read"
  /\ snap' = store.solved
  /\ UNCHANGED <<unit, warned, faults, hostVars, propVars, output, solvedMap, store, inv, interpVars>>

\* .then: setSolvedMap(data.solved || {})
GetDocThen ==
  /\ effPc = "read"
  /\ effPc' = "done"
  /\ solvedMap' = snap
  /\ UNCHANGED <<unit, warned, faults, hostVars, propVars, output, store, snap, inv, interpVars>>

\* ------------------------------------------------------------------ Test Orchestrator

\* what runCode gave the handler: its return value (ok) or the message of the
\* error it threw, with the kind of failure behind it
Returned(text)     == [ok |-> TRUE, text |-> text, cause |-> "none", from |-> {}]
Threw(text, cause) == [ok |-> FALSE, text |-> text, cause |-> cause, from |-> {}]

\* an outcome whose text was read from the sink the executions ws wrote to
ReadFrom(outcome, ws) == [outcome EXCEPT !.from = ws]

\* the handler calls runCode(tests[k - 1], question) and waits at its first await
CallRunCode(rec, k) ==
  [rec EXCEPT !.pc = "rebind", !.k = k, !.order = Append(@, k), !.err = <<>>,
              !.cause = "none"]

\* an invocation settles, having set the display to parts
Settled(rec, parts) == [rec EXCEPT !.pc = "done", !.report = parts]

\* the verdict of the handler on what runCode gave it: passed stays false
\* when runCode threw
Passed(outcome, expected) == outcome.ok /\ Grade(outcome.text, expected)

\* a handleRun that records a passing run as solved, as handleSubmit does
RunAfterTest_MarksSolved(rec, ts, outcome, passed) ==
  IF outcome.ok
  THEN IF passed /\ rec.user # NoUser
       THEN [rec EXCEPT !.results = Append(@, [pass |-> TRUE, cause |-> "none",
                                               msg |-> <<>>, from |-> outcome.from]),
                        !.lines = <<InputPart(ts, 1), ExpectedPart(ts, 1),
                                    YourPart(outcome.text), StatusPart(TRUE)>>,
                        !.pc = "setDoc", !.upserts = @ + 1]
       ELSE Settled([rec EXCEPT !.results = Append(@, [pass |-> passed, cause |-> "none",
                                                       msg |-> <<>>, from |-> outcome.from])],
                    <<InputPart(ts, 1), ExpectedPart(ts, 1), YourPart(outcome.text),
                      StatusPart(passed)>>)
  ELSE Settled([rec EXCEPT !.results = Append(@, [pass |-> FALSE, cause |-> outcome.cause,
                                                  msg |-> outcome.text, from |-> outcome.from])],
               <<ErrorPart(outcome.text)>>)

\* a handleRun that judges the output by exact equality with the expected text
RunAfterTest_ExactCompare(rec, ts, outcome, passed) ==
  IF outcome.ok
  THEN Settled([rec EXCEPT !.results = Append(@, [pass |-> outcome.text = ts[1].output,
                                                  cause |-> "none",
                                                  msg |-> <<>>, from |-> outcome.from])],
               <<InputPart(ts, 1), ExpectedPart(ts, 1), YourPart(outcome.text),
                 StatusPart(outcome.text = ts[1].output)>>)
  ELSE Settled([rec EXCEPT !.results = Append(@, [pass |-> FALSE, cause |-> outcome.cause,
                                                  msg |-> outcome.text, from |-> outcome.from])],
               <<ErrorPart(outcome.text)>>)

\* handleRun after runCode: the message, or the catch of the handler
RunAfterTest(rec, ts, outcome, passed) ==
  IF outcome.ok
  THEN Settled([rec EXCEPT !.results = Append(@, [pass |-> passed, cause |-> "none",
                                                  msg |-> <<>>, from |-> outcome.from])],
               <<InputPart(ts, 1), ExpectedPart(ts, 1), YourPart(outcome.text),
                 StatusPart(passed)>>)
  ELSE Settled([rec EXCEPT !.results = Append(@, [pass |-> FALSE, cause |-> outcome.cause,
                                                  msg |-> outcome.text, from |-> outcome.from])],
               <<ErrorPart(outcome.text)>>)

\* a loop body whose catch block records the error but leaves allPassed alone
SubmitAfterTest_CatchKeepsAllPassed(rec, ts, outcome, passed) ==
  IF passed
  THEN [rec EXCEPT !.results = Append(@, [pass |-> TRUE, cause |-> "none", msg |-> <<>>,
                                          from |-> outcome.from])]
  ELSE [rec EXCEPT
          !.results = Append(@, [pass |-> FALSE, cause |-> outcome.cause,
                                 msg |-> IF outcome.ok THEN <<>> ELSE outcome.text,
                                 from |-> outcome.from]),
          !.allPassed = @ /\ ~outcome.ok,
          !.anyHiddenFailed = @ \/ (outcome.ok /\ ts[rec.k].hidden),
          !.lines = IF ts[rec.k].hidden THEN @
                    ELSE IF outcome.ok
                    THEN @ \o <<InputPart(ts, rec.k), ExpectedPart(ts, rec.k),
                                YourPart(outcome.text)>>
                    ELSE @ \o <<InputPart(ts, rec.k), ErrorLine(outcome.text)>>]

\* a loop body that also lists the failing hidden tests
SubmitAfterTest_ListsHidden(rec, ts, outcome, passed) ==
  IF passed
  THEN [rec EXCEPT !.results = Append(@, [pass |-> TRUE, cause |-> "none", msg |-> <<>>,
                                          from |-> outcome.from])]
  ELSE [rec EXCEPT
          !.results = Append(@, [pass |-> FALSE, cause |-> outcome.cause,
                                 msg |-> IF outcome.ok THEN <<>> ELSE outcome.text,
                                 from |-> outcome.from]),
          !.allPassed = FALSE,
          !.anyHiddenFailed = @ \/ ts[rec.k].hidden,
          !.lines = IF outcome.ok
                    THEN @ \o <<InputPart(ts, rec.k), ExpectedPart(ts, rec.k),
                                YourPart(outcome.text)>>
                    ELSE @ \o <<InputPart(ts, rec.k), ErrorLine(outcome.text)>>]

\* the body of the for loop of handleSubmit after runCode, for test rec.k
SubmitAfterTest(rec, ts, outcome, passed) ==
  IF passed
  THEN [rec EXCEPT !.results = Append(@, [pass |-> TRUE, cause |-> "none", msg |-> <<>>,
                                          from |-> outcome.from])]
  ELSE [rec EXCEPT
          !.results = Append(@, [pass |-> FALSE, cause |-> outcome.cause,
                                 msg |-> IF outcome.ok THEN <<>> ELSE outcome.text,
                                 from |-> outcome.from]),
          !.allPassed = FALSE,
          !.anyHiddenFailed = @ \/ ts[rec.k].hidden,
          !.lines = IF ts[rec.k].hidden THEN @
                    ELSE IF outcome.ok
                    THEN @ \o <<InputPart(ts, rec.k), ExpectedPart(ts, rec.k),
                                YourPart(outcome.text)>>
                    ELSE @ \o <<InputPart(ts, rec.k), ErrorLine(outcome.text)>>]

\* a verdict without the hidden-failure branch
SubmitVerdict_NoGenericMessage(rec) ==
  IF rec.allPassed /\ rec.user # NoUser
  THEN [rec EXCEPT !.lines = @ \o <<BlankPart, BannerPart>>, !.pc = "setDoc",
                   !.upserts = @ + 1]
  ELSE Settled(rec, JoinLines(rec.lines))

\* handleSubmit after the loop, up to its next await or its end
SubmitVerdict(rec) ==
  IF rec.anyHiddenFailed
  THEN Settled(rec, <<GenericPart>>)
  ELSE IF rec.allPassed /\ rec.user # NoUser
  THEN [rec EXCEPT !.lines = @ \o <<BlankPart, BannerPart>>, !.pc = "setDoc",
                   !.upserts = @ + 1]
  ELSE Settled(rec, JoinLines(rec.lines))

\* a loop that a failing test ends
SubmitLoop_StopsAtFailure(rec, ts) ==
  IF rec.k < Len(ts) /\ rec.allPassed THEN CallRunCode(rec, rec.k + 1) ELSE SubmitVerdict(rec)

\* the for loop of handleSubmit: the next test, or the verdict after the last
SubmitLoop(rec, ts) ==
  IF rec.k < Len(ts) THEN CallRunCode(rec, rec.k + 1) ELSE SubmitVerdict(rec)

\* the continuation of the handler of invocation i once runCode has settled:
\* the rest of handleRun, or the rest of the loop body of handleSubmit and
\* then the loop up to the next await
AfterRunCode(i, outcome) ==
  \E o \in {outcome} :
    \E passed \in {Passed(o, IF inv[i].k <= Len(tests) THEN tests[inv[i].k].output ELSE <<>>)} :
      \E r1 \in {IF inv[i].kind = "run"
                 THEN RunAfterTest(inv[i], tests, o, passed)
                 ELSE SubmitAfterTest(inv[i], tests, o, passed)} :
        \E rec \in {IF inv[i].kind = "run" THEN r1 ELSE SubmitLoop(r1, tests)} :
          /\ inv' = [inv EXCEPT ![i] = rec]
          /\ output' = IF rec.pc = "done" THEN rec.report ELSE output

\* the runCode calls an invocation of this kind makes at most
ExecsOf(kind) == IF kind = "run" THEN 1 ELSE IF kind = "submit" THEN Len(tests) ELSE 0

RECURSIVE ExecsUpTo(_)
ExecsUpTo(n) == IF n = 0 THEN 0 ELSE ExecsUpTo(n - 1) + ExecsOf(inv[n].kind)

\* the slot of the next click, of a kind whose executions are still followed
NextInv(i, kind) ==
  /\ inv[i].kind = "none"
  /\ \A j \in Invs : j < i => inv[j].kind # "none"
  /\ ExecsUpTo(MaxInv) + ExecsOf(kind) <= MaxExecs

\* handlers without the guard
Ready_NoGuard == TRUE

\* the negation of the guard of the handlers: loading || !pyodide
Ready == ~loading /\ pyodide

\* handleRun, from the click to its first await
HandleRun(i) ==
  /\ NextInv(i, "run")
  /\ Ready
  /\ LET rec == [IdleInv EXCEPT !.kind = "run", !.code = code, !.user = user]
     IN  IF question = NotFound
         THEN /\ inv' = [inv EXCEPT ![i] = Settled(rec, <<ErrorPart(NotFoundMsg)>>)]
              /\ output' = <<ErrorPart(NotFoundMsg)>>
         ELSE /\ inv' = [inv EXCEPT ![i] = CallRunCode(rec, 1)]
              /\ output' = <<>>
  /\ UNCHANGED <<unit, warned, faults, hostVars, propVars, progressVars, interpVars>>

\* a handleSubmit that starts its loop without looking the question up
HandleSubmit_NoLookup(i) ==
  /\ NextInv(i, "submit")
  /\ Ready
  /\ LET rec  == [IdleInv EXCEPT !.kind = "submit", !.code = code, !.user = user]
         rec2 == SubmitLoop(rec, tests)
     IN  /\ inv' = [inv EXCEPT ![i] = rec2]
         /\ output' = IF rec2.pc = "done" THEN rec2.report ELSE <<>>
  /\ UNCHANGED <<unit, warned, faults, hostVars, propVars, progressVars, interpVars>>

\* handleSubmit, from the click to its first await
HandleSubmit(i) ==
  /\ NextInv(i, "submit")
  /\ Ready
  /\ LET rec  == [IdleInv EXCEPT !.kind = "submit", !.code = code, !.user = user]
         rec2 == IF question = NotFound
                 THEN Settled(rec, <<ErrorPart(NotFoundMsg)>>)
                 ELSE SubmitLoop(rec, tests)
     IN  /\ inv' = [inv EXCEPT ![i] = rec2]
         /\ output' = IF rec2.pc = "done" THEN rec2.report ELSE <<>>
  /\ UNCHANGED <<unit, warned, faults, hostVars, propVars, progressVars, interpVars>>

\* handleRun or handleSubmit while loading or without an interpreter: return
HandleRejected ==
  /\ ~Ready
  /\ warned < MaxWarn
  /\ warned' = warned + 1
  /\ UNCHANGED <<unit, faults, hostVars, propVars, output, progressVars, inv, interpVars>>

\* ------------------------------------------------------------------ Output Capture, Execution Supervisor

ScriptOf(i) == {s \in scripts : s.id = <<i, inv[i].k>> /\ s.attached}

\* rawActualOutput.trim() || "[no output]"
CapturedOutput(raw) == IF Trim(raw) = <<>> THEN NoOutputText ELSE Trim(raw)

\* a catch that always rethrows the message of the error it caught
CaughtMessage_ErrorOnly(errOut, errorMessage) == errorMessage

\* new Error(errOut || errorMessage)
CaughtMessage(errOut, errorMessage) == IF errOut # <<>> THEN errOut ELSE errorMessage

\* a withTimeout without a working timer
DeadlineCanElapse_Never(i) == FALSE

\* withTimeout: the timer callback runs on the event loop, so the deadline can
\* elapse for an execution only while its script is suspended at an await (the
\* start of the script is queued before the timer is armed)
DeadlineCanElapse(i) == inv[i].pc = "exec" /\ \E s \in ScriptOf(i) : s.pos > 0

\* runCode: "sys.stdout = io.StringIO()" has run; the reader is built and set
\* as the global input, runPythonAsync(code) is called under withTimeout
RebindOk(i) ==
  /\ inv[i].pc = "rebind"
  /\ sink' = <<>>
  /\ writers' = {}
  /\ IF inv[i].k > Len(tests)
     THEN \* runCode(undefined): testCase.input throws a TypeError
          /\ AfterRunCode(i, Threw(TypeErrorMsg, "type"))
          /\ UNCHANGED <<hook, scripts>>
     ELSE /\ hook' = MakeReader(<<i, inv[i].k>>, tests[inv[i].k].input, question)
          /\ scripts' = scripts \cup
                {[id |-> <<i, inv[i].k>>, prog |-> inv[i].code, pos |-> 0, x |-> <<>>,
                  attached |-> TRUE]}
          /\ inv' = [inv EXCEPT ![i].pc = "exec"]
          /\ UNCHANGED output
  /\ UNCHANGED <<unit, warned, faults, hostVars, propVars, progressVars>>

\* runCode: the rebinding call throws (or its deadline elapses): runCode throws
RebindFail(i) ==
  /\ Fault
  /\ inv[i].pc = "rebind"
  /\ AfterRunCode(i, Threw(InterpErrorMsg, "rebind"))
  /\ UNCHANGED <<unit, warned, hostVars, propVars, progressVars, interpVars>>

\* the event loop runs the next synchronous stretch of a script
ScriptResume(s) ==
  /\ s \in scripts
  /\ LET seg == RunSegment(s.prog, s.id, s.pos, s.x, hook, sink)
         i   == s.id[1]
     IN  /\ hook' = seg.hook
         /\ sink' = seg.sink
         /\ writers' = IF seg.sink # sink THEN writers \cup {s.id} ELSE writers
         /\ IF seg.status = "suspended"
            THEN /\ scripts' = (scripts \ {s}) \cup {[s EXCEPT !.pos = seg.pos, !.x = seg.x]}
                 /\ UNCHANGED inv
            ELSE /\ scripts' = scripts \ {s}
                 /\ IF s.attached
                    THEN inv' = [inv EXCEPT
                                  ![i].pc = IF seg.status = "done" THEN "readOk" ELSE "readErr",
                                  ![i].err = seg.msg,
                                  ![i].cause = IF seg.status = "done" THEN "none"
                                               ELSE IF seg.msg = NoMoreInputMsg THEN "exhausted"
                                               ELSE "raise"]
                    ELSE UNCHANGED inv
  /\ UNCHANGED <<unit, warned, faults, hostVars, propVars, progressVars, output>>

\* withTimeout: the timer rejects the race first; the script is left running
ExecTimeout(i) ==
  /\ DeadlineCanElapse(i)
  /\ scripts' = (scripts \ ScriptOf(i)) \cup {[s EXCEPT !.attached = FALSE] : s \in ScriptOf(i)}
  /\ inv' = [inv EXCEPT ![i].pc = "readErr", ![i].err = TimeLimitMsg, ![i].cause = "timeout"]
  /\ UNCHANGED <<unit, warned, faults, hostVars, propVars, progressVars, output, hook, sink, writers>>

\* runCode: "sys.stdout.getvalue()" returns the text of the sink
ReadBackOk(i) ==
  /\ inv[i].pc \in {"readOk", "readErr"}
  /\ AfterRunCode(i, ReadFrom(IF inv[i].pc = "readOk"
                              THEN Returned(CapturedOutput(sink))
                              ELSE Threw(CaughtMessage(sink, inv[i].err), inv[i].cause),
                              writers))
  /\ UNCHANGED <<unit, warned, faults, hostVars, propVars, progressVars, interpVars>>

\* runCode: "sys.stdout.getvalue()" throws: in the try block it is caught by
\* the catch of runCode, in the catch block it leaves runCode
ReadBackFail(i) ==
  /\ Fault
  /\ inv[i].pc \in {"readOk", "readErr"}
  /\ IF inv[i].pc = "readOk"
     THEN /\ inv' = [inv EXCEPT ![i].pc = "readErr", ![i].err = InterpErrorMsg,
                                ![i].cause = "readback"]
          /\ UNCHANGED output
     ELSE AfterRunCode(i, Threw(InterpErrorMsg, "readback"))
  /\ UNCHANGED <<unit, warned, hostVars, propVars, progressVars, interpVars>>

\* ------------------------------------------------------------------ progress store

\* a setDoc without {merge: true}: the document is replaced
SetDocOk_NoMerge(i) ==
  /\ inv[i].pc = "setDoc"
  /\ store' = [solved |-> {QuestionId}, writes |-> store.writes + 1]
  /\ solvedMap' = solvedMap \cup {QuestionId}
  /\ inv' = [inv EXCEPT ![i] = Settled(@, JoinLines(inv[i].lines))]
  /\ output' = JoinLines(inv[i].lines)
  /\ UNCHANGED <<unit, warned, faults, hostVars, propVars, effPc, snap, interpVars>>

\* setDoc(..., {merge: true}) resolves; setSolvedMap; setOutput(lines.join("\n"))
SetDocOk(i) ==
  /\ inv[i].pc = "setDoc"
  /\ store' = [solved |-> store.solved \cup {QuestionId}, writes |-> store.writes + 1]
  /\ solvedMap' = solvedMap \cup {QuestionId}
  /\ inv' = [inv EXCEPT ![i] = Settled(@, JoinLines(inv[i].lines))]
  /\ output' = JoinLines(inv[i].lines)
  /\ UNCHANGED <<unit, warned, faults, hostVars, propVars, effPc, snap, interpVars>>

\* setDoc rejects: the catch of handleSubmit
SetDocFail(i) ==
  /\ Fault
  /\ inv[i].pc = "setDoc"
  /\ inv' = [inv EXCEPT ![i] = Settled(@, <<ErrorPart(StoreErrorMsg)>>)]
  /\ output' = <<ErrorPart(StoreErrorMsg)>>
  /\ UNCHANGED <<unit, warned, hostVars, propVars, progressVars, interpVars>>

\* ------------------------------------------------------------------ specification

Next ==
  \/ InitInject
  \/ InitLoadPyodide
  \/ InitReady
  \/ InitFail
  \/ GetDocRead
  \/ GetDocThen
  \/ HandleRejected
  \/ \E i \in Invs : HandleRun(i)
  \/ \E i \in Invs : HandleSubmit(i)
  \/ \E i \in Invs : RebindOk(i)
  \/ \E i \in Invs : RebindFail(i)
  \/ \E s \in scripts : ScriptResume(s)
  \/ \E i \in Invs : ExecTimeout(i)
  \/ \E i \in Invs : ReadBackOk(i)
  \/ \E i \in Invs : ReadBackFail(i)
  \/ \E i \in Invs : SetDocOk(i)
  \/ \E i \in Invs : SetDocFail(i)

Spec == Init /\ [][Next]_vars

\* the event loop starts a script that runPythonAsync has queued
ScriptStart(i) == \E s \in ScriptOf(i) : s.pos = 0 /\ ScriptResume(s)

\* the steps the event loop owes an invocation in flight: a pending interpreter
\* call settles, a queued script starts, an armed deadline timer fires unless
\* the execution completes first, and the store call settles
Progress ==
  \E i \in Invs :
    RebindOk(i) \/ ScriptStart(i) \/ ExecTimeout(i) \/ ReadBackOk(i) \/ SetDocOk(i)

\* the event loop keeps taking these steps while one is due; a script that
\* is suspended at an await need never be resumed
Fairness == WF_vars(Progress)

\* a signed-in user submitting scripts that await
InitLive ==
  /\ Init
  /\ user = "u1"
  /\ code \in {<<"printK", "await">>, <<"await", "read", "print">>}
  /\ tests = <<PubA, HidB>>
  /\ question = "space_separated_integers"

SpecLive == InitLive /\ [][Next]_vars /\ Fairness

\* ------------------------------------------------------------------ the readers on their own

\* Number of calls made to each reader.
MaxReads == 5

\* question.input_format: the five formats runCode names and one it does not
ReaderFormats ==
  {"single_integer", "single_string", "space_separated_integers",
   "multiline_integers", "space_separated_with_operator", "other"}

\* testCase.input
ReaderInputs ==
  { <<"3", "\n", "1", " ", "2", " ", "3">>,
    <<"5", " ", "+", " ", "3">>,
    <<" ", "7", " ", " ", "8", " ">>,
    <<>>,
    <<"3", "\n", " ", "\n", "4">>,
    <<"1", "\r", "\n", "2">>,
    <<"4", "\n", "\n", "5">> }

OtherInput == <<"9", " ", "6">>

\* the component before its effects have run, with nothing in the editor
Idle ==
  /\ initPc = "start"
  /\ loading = TRUE
  /\ pyodide = FALSE
  /\ user = NoUser
  /\ code = <<>>
  /\ tests = <<>>
  /\ question = NotFound
  /\ output = <<>>
  /\ solvedMap = {}
  /\ store = [solved |-> {OtherId}, writes |-> 0]
  /\ effPc = "start"
  /\ snap = {}
  /\ inv = [i \in Invs |-> IdleInv]
  /\ hook = MakeReader(NoOwner, <<>>, "builtin")
  /\ sink = <<>>
  /\ scripts = {}
  /\ writers = {}
  /\ warned = 0
  /\ faults = 0

componentVars == <<initPc, loading, pyodide, user, code, tests, question, output,
                   solvedMap, store, effPc, snap, inv, hook, sink, scripts, writers,
                   warned, faults>>

\* three runCode calls have built their readers: two for the same test input
\* and format, one for another input; got[j] holds what the calls of reader j
\* returned
ReaderUnit(input, inputFormat) ==
  [fn |-> "read", input |-> input, fmt |-> inputFormat,
   r   |-> << MakeReader(<<1, 1>>, input, inputFormat),
              MakeReader(<<2, 1>>, input, inputFormat),
              MakeReader(<<2, 2>>, OtherInput, inputFormat) >>,
   got |-> << <<>>, <<>>, <<>> >>]

InitReaders ==
  /\ Idle
  /\ unit \in {ReaderUnit(input, f) : input \in ReaderInputs, f \in ReaderFormats}

\* closures that share one cursor declared outside runCode
UnitReader_SharedCursor(u, j) ==
  [u.r[j] EXCEPT !.index = Max(Max(u.r[1].index, u.r[2].index), u.r[3].index)]

\* the variables the j-th inputProcessor closes over: those its own runCode
\* call declared
UnitReader(u, j) == u.r[j]

\* the script calls input() while reader j is the global input
UnitRead(j) ==
  /\ unit.fn = "read"
  /\ Len(unit.got[j]) < MaxReads
  /\ \E rd \in {ReadInput(UnitReader(unit, j))} :
       unit' = [unit EXCEPT !.r[j] = rd.r,
                            !.got[j] = Append(@, [kind |-> rd.kind, val |-> rd.val])]
  /\ UNCHANGED componentVars

NextReaders == \E j \in 1..3 : UnitRead(j)

SpecReaders == InitReaders /\ [][NextReaders]_vars

\* ------------------------------------------------------------------ the grading on its own

\* actual and expected outputs
GradeTexts ==
  { <<"5">>, <<"5", ".", "0", "1">>, <<"5", ".", "0", "2">>, <<"4", ".", "9", "9">>,
    <<"1">>, <<"1", ".", "0", "1">>, <<"3", ".", "1", "4">>,
    <<"3", ".", "1", "4", "1", "5", "9">>, <<"t", "r", "u", "e">>,
    <<"T", "r", "u", "e">>, <<>>, <<"0">>, <<" ", "5", "\n">>, <<"a", "b", "c">> }

Verdict(passed) == IF passed THEN "pass" ELSE "fail"

InitGrade ==
  /\ Idle
  /\ unit \in {[fn |-> "grade", actual |-> a, expected |-> e,
                run |-> "none", submit |-> "none"] : a \in GradeTexts, e \in GradeTexts}

\* the comparison in handleRun
UnitGradeRun ==
  /\ unit.fn = "grade"
  /\ unit.run = "none"
  /\ unit' = [unit EXCEPT !.run = Verdict(Grade(unit.actual, unit.expected))]
  /\ UNCHANGED componentVars

\* the comparison in the loop of handleSubmit
UnitGradeSubmit ==
  /\ unit.fn = "grade"
  /\ unit.submit = "none"
  /\ unit' = [unit EXCEPT !.submit = Verdict(Grade(unit.actual, unit.expected))]
  /\ UNCHANGED componentVars

NextGrade == UnitGradeRun \/ UnitGradeSubmit

SpecGrade == InitGrade /\ [][NextGrade]_vars

\* ------------------------------------------------------------------ one invocation at a time

\* a test whose expected output is the number of the input in another notation
PubC == TestCase(<<"5">>, <<"5", ".", "0">>, FALSE)

\* the scripts that never await: an execution of theirs is one synchronous
\* stretch, the same for the same input
SeqPrograms == {p \in Programs : \A n \in 1..Len(p) : p[n] # "await"}

SeqSuites == {<<PubA>>, <<PubB>>, <<PubC>>, <<PubA, HidB>>, <<HidB, PubA>>}

InitSeq ==
  /\ initPc = "start"
  /\ loading = TRUE
  /\ pyodide = FALSE
  /\ user \in {NoUser, "u1"}
  /\ code \in SeqPrograms
  /\ tests \in SeqSuites
  /\ question = "space_separated_integers"
  /\ output = <<>>
  /\ solvedMap = {}
  /\ store = [solved |-> {OtherId}, writes |-> 0]
  /\ effPc = "start"
  /\ snap = {}
  /\ inv = [i \in Invs |-> IdleInv]
  /\ hook = MakeReader(NoOwner, <<>>, "builtin")
  /\ sink = <<>>
  /\ scripts = {}
  /\ writers = {}
  /\ warned = 0
  /\ faults = 0
  /\ unit = NoUnit

\* no handler is between its click and its end
NoneInFlight == \A j \in Invs : inv[j].pc \in {"idle", "done"}

\* a click on Run or on Submit while no other invocation is in flight
SeqRun(i)    == NoneInFlight /\ HandleRun(i)
SeqSubmit(i) == NoneInFlight /\ HandleSubmit(i)

\* the steps of the component when clicks do not overlap and no interpreter
\* or store call fails
NextSeq ==
  \/ InitInject
  \/ InitLoadPyodide
  \/ InitReady
  \/ GetDocRead
  \/ GetDocThen
  \/ \E i \in Invs : SeqRun(i)
  \/ \E i \in Invs : SeqSubmit(i)
  \/ \E i \in Invs : RebindOk(i)
  \/ \E s \in scripts : ScriptResume(s)
  \/ \E i \in Invs : ReadBackOk(i)
  \/ \E i \in Invs : SetDocOk(i)

SpecSeq == InitSeq /\ [][NextSeq]_vars

\* ------------------------------------------------------------------ claims

Submits == {i \in Invs : inv[i].kind = "submit"}

\* the tests of invocation i that failed, by position in its results
Failed(i) == {n \in 1..Len(inv[i].results) : ~inv[i].results[n].pass}

HiddenFailed(i) == \E n \in Failed(i) : tests[inv[i].order[n]].hidden
PublicFailed(i) == \E n \in Failed(i) : ~tests[inv[i].order[n]].hidden

\* every test of the suite was run once, in suite order, and has a result
RanWholeSuite(i) ==
  /\ inv[i].order = [n \in 1..Len(tests) |-> n]
  /\ Len(inv[i].results) = Len(tests)

\* C1: a SubmitAll in which a hidden test failed settles showing exactly the
\* generic hidden-failure message, whatever the public tests did.
C1_HiddenFailureShowsGeneric ==
  \A i \in Submits :
    (inv[i].pc = "done" /\ HiddenFailed(i)) => inv[i].report = <<GenericPart>>

C1_Witness ==
  \E i \in Submits :
    /\ inv[i].pc = "done" /\ HiddenFailed(i) /\ PublicFailed(i)
    /\ inv[i].lines # <<>>
    /\ output = <<GenericPart>>

\* C2: the displayed output never holds the input or the expected output of
\* a hidden test.
C2_NoHiddenContentShown ==
  \A n \in 1..Len(output) : output[n].k # 0 => ~tests[output[n].k].hidden

\* C3: a SubmitAll issues the solved upsert only after every test of the suite
\* was run and graded as pass, and the problem is marked solved (in the store
\* or locally) only by such an upsert.
C3_UpsertOnlyWhenAllPassed ==
  /\ \A i \in Invs :
       inv[i].upserts > 0 =>
         /\ i \in Submits
         /\ RanWholeSuite(i)
         /\ Failed(i) = {}
  /\ (store.writes > 0 \/ QuestionId \in solvedMap \/ QuestionId \in store.solved)
       => \E i \in Invs : inv[i].upserts > 0

C3_Witness ==
  \E i \in Submits :
    /\ inv[i].upserts = 1 /\ inv[i].pc = "done" /\ Len(tests) > 0
    /\ store.writes > 0 /\ QuestionId \in solvedMap

\* C4: a SubmitAll on a non-empty suite without hidden tests whose tests all
\* pass issues exactly one upsert and its report ends with the success banner.
C4_AllPublicPassMarksSolved ==
  \A i \in Submits :
    ( /\ inv[i].pc = "done"
      /\ Len(tests) > 0
      /\ \A n \in 1..Len(tests) : ~tests[n].hidden
      /\ RanWholeSuite(i)
      /\ Failed(i) = {} )
    => /\ inv[i].upserts = 1
       /\ inv[i].report # <<>>
       /\ inv[i].report[Len(inv[i].report)] = BannerPart

\* C5: in a SubmitAll the tests are run in suite order, each once, and a
\* failing test (timeout, exhausted input, interpreter error, failing rebind
\* or read back) does not keep the later tests from running: past the loop
\* every test of the suite has its result.
C5_SuiteRunsToCompletion ==
  \A i \in Submits :
    /\ inv[i].order = [n \in 1..Len(inv[i].order) |-> n]
    /\ Len(inv[i].results) <= Len(inv[i].order)
    /\ (inv[i].pc \in {"setDoc", "done"} /\ question # NotFound) => RanWholeSuite(i)

C5_Witness ==
  \E i \in Submits :
    /\ inv[i].pc = "done" /\ Len(tests) = 2 /\ RanWholeSuite(i)
    /\ inv[i].results[1].cause \in {"timeout", "exhausted", "raise", "rebind", "readback"}

\* C6: under the fair scheduling of the event loop every SubmitAll settles with
\* a result for every test, also when a user script is never resumed.
C6_SubmitSettles ==
  \A i \in Invs :
    (inv[i].kind = "submit") ~> (inv[i].pc = "done" /\ RanWholeSuite(i))

C6_Witness ==
  \E i \in Submits :
    /\ inv[i].pc = "done" /\ RanWholeSuite(i)
    /\ inv[i].results[1].cause = "timeout"
    /\ \E s \in scripts : s.id = <<i, 1>> /\ ~s.attached

\* C7: a test whose deadline elapsed reports the fixed time-limit message.
C7_TimeoutReportsFixedMessage ==
  \A i \in Invs : \A n \in 1..Len(inv[i].results) :
    inv[i].results[n].cause = "timeout" => inv[i].results[n].msg = TimeLimitMsg

\* C8: within a SubmitAll at most one script execution is in progress: a test
\* starts only when the script of the previous test has ended.
C8_ExecutionsSerialized ==
  \A i \in Invs : Cardinality({s \in scripts : s.id[1] = i}) <= 1

\* C9: at most one Run or Submit invocation is in flight.
C9_SingleFlight ==
  Cardinality({i \in Invs : inv[i].kind # "none" /\ inv[i].pc # "done"}) <= 1

\* C10: the reader built for an execution is read by that execution only, not
\* by the execution of another test of the same invocation.
C10_ReaderReadByOwnerOnly ==
  \A id \in hook.readBy : id[1] = hook.owner[1] => id = hook.owner

\* C11: the text read back for a test (its captured output or its error
\* message) was written by the execution of that test only, not by the
\* execution of an earlier test of the invocation that timed out.
C11_LateOutputIgnored ==
  \A i \in Invs : \A n \in 1..Len(inv[i].results) :
    \A id \in inv[i].results[n].from : id[1] = i => id = <<i, inv[i].order[n]>>

\* C12: while loading, or without an interpreter, no step starts an
\* invocation or changes the input hook, the sink, the scripts, the display
\* or the store, and no invocation is pending when the host becomes ready.
C12_NotReadyRejects ==
  [][(loading \/ ~pyodide) =>
       /\ UNCHANGED <<inv, hook, sink, scripts, output, store>>
       /\ \A i \in Invs : inv[i].kind = "none"]_vars

C12_Witness ==
  /\ warned > 0
  /\ ~loading /\ pyodide
  /\ \A i \in Invs : inv[i].kind = "none"
  /\ output = <<>> /\ scripts = {} /\ store.writes = 0

\* Uninitialized (0), Loading (1), Ready (2)
HostState(pc) == IF pc = "ready" THEN 2 ELSE IF pc = "start" THEN 0 ELSE 1

\* C13: the host only moves forward, Uninitialized to Loading to Ready; once
\* ready it stays ready; after a failed bootstrap it stays loading, without an
\* interpreter, and no invocation starts.
C13_LifecycleForward ==
  [][ /\ HostState(initPc) <= HostState(initPc')
      /\ (HostState(initPc) = 2) <=> (~loading /\ pyodide)
      /\ (~loading /\ pyodide) => (~loading' /\ pyodide')
      /\ initPc = "failed" =>
           /\ initPc' = "failed" /\ loading' /\ ~pyodide'
           /\ UNCHANGED <<inv, interpVars, output, store>> ]_vars

C13_Witness ==
  /\ initPc = "failed" /\ loading /\ ~pyodide
  /\ warned > 0
  /\ \A i \in Invs : inv[i].kind = "none"

\* C14: a SubmitAll that issued the upsert (all its tests passed) settles
\* showing its report, which ends with the success banner, also when the
\* upsert fails.
C14_UpsertFailureKeepsReport ==
  \A i \in Submits :
    (inv[i].pc = "done" /\ inv[i].upserts > 0 /\ Len(tests) > 0) =>
      /\ inv[i].report = JoinLines(inv[i].lines)
      /\ inv[i].report[Len(inv[i].report)] = BannerPart

\* C15: an upsert marks the problem solved in the store and locally and
\* alters no other entry; an upsert of a problem that is already marked solved
\* leaves the stored and the local solved map as they are.
C15_UpsertIdempotent ==
  [][ /\ store.solved \subseteq store.solved'
      /\ store.solved' \subseteq store.solved \cup {QuestionId}
      /\ (store.writes' # store.writes) =>
           /\ store.solved' = store.solved \cup {QuestionId}
           /\ solvedMap' = solvedMap \cup {QuestionId}
           /\ (QuestionId \in store.solved => store.solved' = store.solved)
           /\ (QuestionId \in solvedMap => solvedMap' = solvedMap) ]_vars

C15_Witness ==
  /\ store.writes = 2
  /\ store.solved = {OtherId, QuestionId}
  /\ QuestionId \in solvedMap
  /\ Len(tests) > 0
  /\ \A i \in Invs : inv[i].kind = "submit" /\ inv[i].pc = "done" /\ inv[i].upserts = 1
                     /\ inv[i].code = code

\* the rule as stated: on the decimal values, strictly less than 1/100 apart
ToleranceRule(actual, expected) ==
  LET ne == ToLowerCase(Trim(expected))
      na == ToLowerCase(Trim(actual))
      sd == ScaledDistance(tryParseFloat(ne), tryParseFloat(na))
  IN  IF tryParseFloat(ne).ok /\ tryParseFloat(na).ok THEN sd.d < sd.one ELSE na = ne

\* C16: the verdict of handleRun and of handleSubmit on a pair is the
\* tolerance rule: both sides numbers less than 1e-2 apart, or, when a side is
\* no number, equal normalized texts.
C16_GradeIsToleranceRule ==
  unit.fn = "grade" =>
    /\ unit.run \in {"none", Verdict(ToleranceRule(unit.actual, unit.expected))}
    /\ unit.submit \in {"none", Verdict(ToleranceRule(unit.actual, unit.expected))}

\* the positions of the input text where a token starts
TokenStarts(s) == {i \in 1..Len(s) : ~IsSpace(s[i]) /\ (i = 1 \/ IsSpace(s[i - 1]))}

\* the token that starts at position i
TokenAt(s, i) ==
  SubSeq(s, i, CHOOSE j \in i..Len(s) :
                 /\ \A m \in i..j : ~IsSpace(s[m])
                 /\ (j = Len(s) \/ IsSpace(s[j + 1])))

\* what the k-th read of a tokenizing reader is to return: the k-th token, or
\* the failure once the tokens are used up
ExpectedRead(s, k) ==
  IF k <= Cardinality(TokenStarts(s))
  THEN [kind |-> "value",
        val  |-> TokenAt(s, CHOOSE i \in TokenStarts(s) :
                              Cardinality({j \in TokenStarts(s) : j < i}) = k - 1)]
  ELSE [kind |-> "throw", val |-> <<>>]

\* C17: the reads of a multiline_integers reader return the tokens of the
\* lines in order, line after line, and fail once the last token is read.
C17_MultilineReadsTokens ==
  (unit.fn = "read" /\ unit.fmt = "multiline_integers") =>
    \A k \in 1..Len(unit.got[1]) : unit.got[1][k] = ExpectedRead(unit.input, k)

\* C18: for space_separated_integers, space_separated_with_operator and the
\* fallback, the k-th read returns the k-th token of the input, reads past the
\* last token fail, and the cursor stays within the token count.
C18_TokenReaders ==
  (unit.fn = "read" /\ unit.fmt \in {"space_separated_integers",
                                     "space_separated_with_operator", "other"}) =>
    /\ \A k \in 1..Len(unit.got[1]) : unit.got[1][k] = ExpectedRead(unit.input, k)
    /\ unit.r[1].index <= Cardinality(TokenStarts(unit.input))

C18_Witness ==
  /\ unit.fn = "read" /\ unit.fmt = "space_separated_with_operator"
  /\ unit.input = <<"5", " ", "+", " ", "3">>
  /\ Len(unit.got[1]) = 5
  /\ unit.got[1][3].kind = "value" /\ unit.got[1][3].val = <<"3">>
  /\ unit.got[1][4].kind = "throw" /\ unit.got[1][5].kind = "throw"

\* C19: for single_integer and single_string the first read returns the
\* input text as it is and every later read returns the empty text.
C19_SingleReaders ==
  (unit.fn = "read" /\ unit.fmt \in {"single_integer", "single_string"}) =>
    \A k \in 1..Len(unit.got[1]) :
      unit.got[1][k] = [kind |-> "value", val |-> IF k = 1 THEN unit.input ELSE <<>>]

C19_Witness ==
  /\ unit.fn = "read" /\ unit.fmt = "single_integer"
  /\ unit.input = <<" ", "7", " ", " ", "8", " ">>
  /\ Len(unit.got[1]) >= 3
  /\ unit.got[1][1].val = unit.input /\ unit.got[1][3].val = <<>>

Runs == {i \in Invs : inv[i].kind = "run"}

\* C21: a RunSingle calls runCode for the first test only and at most once,
\* runs no script of another test, never issues the upsert, and while only
\* RunSingle invocations were made the store and the loaded solved map hold
\* what they held, whatever the test did.
C21_RunSingleFrame ==
  /\ \A i \in Runs :
       /\ inv[i].order \in {<<>>, <<1>>}
       /\ Len(inv[i].results) <= Len(inv[i].order)
       /\ \A s \in scripts : s.id[1] = i => s.id[2] = 1
       /\ inv[i].upserts = 0
       /\ inv[i].pc # "setDoc"
  /\ Submits = {} =>
       /\ store = [solved |-> {OtherId}, writes |-> 0]
       /\ solvedMap \in {{}, {OtherId}}

C21_Witness ==
  /\ Runs = Invs
  /\ Len(tests) = 2 /\ user = "u1"
  /\ \A i \in Runs : inv[i].pc = "done" /\ inv[i].order = <<1>> /\ Len(inv[i].results) = 1
  /\ \E i \in Runs : inv[i].results[1].pass
  /\ \E i \in Runs : ~inv[i].results[1].pass
  /\ store.writes = 0 /\ solvedMap = {OtherId}

\* C22: with a question that is not found, every RunSingle and SubmitAll has
\* settled in its click showing the question-not-found error, no test was
\* executed, the input hook and the output sink are the ones of the start,
\* and the store was not written.
C22_QuestionNotFoundAborts ==
  question = NotFound =>
    /\ \A i \in Invs :
         inv[i].kind # "none" =>
           /\ inv[i].pc = "done"
           /\ inv[i].report = <<ErrorPart(NotFoundMsg)>>
           /\ inv[i].order = <<>> /\ inv[i].results = <<>>
           /\ inv[i].upserts = 0
           /\ output = <<ErrorPart(NotFoundMsg)>>
    /\ hook = MakeReader(NoOwner, <<>>, "builtin")
    /\ sink = <<>> /\ writers = {} /\ scripts = {}
    /\ store = [solved |-> {OtherId}, writes |-> 0]

C22_Witness ==
  /\ question = NotFound /\ Len(tests) = 2 /\ user = "u1"
  /\ Runs # {} /\ Submits # {}
  /\ \A i \in Invs : inv[i].pc = "done"
  /\ output = <<ErrorPart(NotFoundMsg)>>

\* the step in which runCode, in its catch block, reads the sink back for
\* invocation i after its script raised
CatchReadsBack(i) ==
  /\ inv[i].pc = "readErr"
  /\ inv[i].cause \in {"raise", "exhausted"}
  /\ faults' = faults
  /\ Len(inv'[i].results) = Len(inv[i].results) + 1

\* C23: when the script raised, the text of the sink is still read back; the
\* test is recorded as failed, with the text of the sink as its message when
\* that text is not empty and the message of the raised error otherwise.
C23_RaisedErrorMessage ==
  [][\A i \in Invs :
       CatchReadsBack(i) =>
         LET r == inv'[i].results[Len(inv'[i].results)]
         IN  /\ ~r.pass
             /\ r.msg = IF sink # <<>> THEN sink ELSE inv[i].err]_vars

C23_Witness ==
  \E i \in Invs :
    /\ inv[i].results # <<>>
    /\ inv[i].results[1].cause = "raise"
    /\ ~inv[i].results[1].pass
    /\ inv[i].results[1].msg = ConstText \o <<"\n">>
    /\ inv[i].results[1].from = {<<i, 1>>}

\* the verdicts the handlers have given on the pair
UnitVerdicts == {unit.run, unit.submit} \ {"none"}

\* C24: on an actual output that runCode can return, the empty text is graded
\* as a text: the pair passes when both normalized sides are empty and fails
\* when exactly one of them is.
C24_EmptyTextIsOrdinary ==
  (unit.fn = "grade" /\ unit.actual = CapturedOutput(unit.actual)) =>
    LET ne == ToLowerCase(Trim(unit.expected))
        na == ToLowerCase(Trim(unit.actual))
    IN  \A v \in UnitVerdicts :
          /\ (ne = <<>> /\ na = <<>>) => v = "pass"
          /\ ((ne = <<>>) # (na = <<>>)) => v = "fail"

\* C25: no read of a multiline_integers reader returns undefined or an empty
\* token: a read either fails or returns a token with characters.
C25_MultilineReadsNonEmpty ==
  (unit.fn = "read" /\ unit.fmt = "multiline_integers") =>
    \A j \in 1..3 : \A k \in 1..Len(unit.got[j]) :
      /\ unit.got[j][k].kind # "undefined"
      /\ unit.got[j][k].kind = "value" => unit.got[j][k].val # <<>>

Masked(part) == IF part.l = "Your Output" THEN [part EXCEPT !.t = <<>>] ELSE part

\* the block of lines of the n-th executed test of invocation i when it is a
\* failing public test, and no line otherwise
DetailBlock(i, n) ==
  LET k == inv[i].order[n]
      r == inv[i].results[n]
  IN  IF r.pass \/ tests[k].hidden THEN <<>>
      ELSE IF r.cause = "none"
      THEN <<InputPart(tests, k), ExpectedPart(tests, k), YourPart(<<>>)>>
      ELSE <<InputPart(tests, k), ErrorLine(r.msg)>>

RECURSIVE DetailUpTo(_, _)
DetailUpTo(i, n) == IF n = 0 THEN <<>> ELSE DetailUpTo(i, n - 1) \o DetailBlock(i, n)

\* the lines of invocation i without the banner of the verdict
DetailLines(i) ==
  IF inv[i].upserts > 0
  THEN SubSeq(inv[i].lines, 1, Len(inv[i].lines) - 2)
  ELSE inv[i].lines

\* C27: in every state of a SubmitAll, in its loop and after it, the
\* hidden-failure flag is set exactly when an executed hidden test failed,
\* the overall-pass flag is true exactly when no executed test failed, and the
\* detail list is the blocks of the executed failing public tests in the
\* order of the suite, with nothing for a passing or a hidden test.
C27_LoopBookkeeping ==
  \A i \in Submits :
    /\ inv[i].anyHiddenFailed = HiddenFailed(i)
    /\ inv[i].allPassed = (Failed(i) = {})
    /\ Len(inv[i].results) <= Len(inv[i].order)
    /\ [n \in 1..Len(DetailLines(i)) |-> Masked(DetailLines(i)[n])]
         = DetailUpTo(i, Len(inv[i].results))

C27_Witness ==
  \E i \in Submits :
    /\ tests = <<PubA, PubB>>
    /\ inv[i].pc = "done" /\ RanWholeSuite(i)
    /\ Failed(i) = {2}
    /\ ~inv[i].allPassed /\ ~inv[i].anyHiddenFailed
    /\ Len(inv[i].lines) = 3 /\ inv[i].lines[1] = InputPart(tests, 2)
    /\ output = inv[i].lines

\* C28: the solved upsert is issued only by a SubmitAll that executed a test
\* and saw it pass; with an empty suite no upsert is issued.
C28_UpsertNeedsPassedTest ==
  \A i \in Invs :
    inv[i].upserts > 0 =>
      /\ tests # <<>>
      /\ \E n \in 1..Len(inv[i].results) : inv[i].results[n].pass

====
